---- MODULE Spec2Model ----
(***************************************************************************)
(* Model of docs/js/redirect.js: the TurboSpeedFiles page controller.      *)
(*                                                                         *)
(* Strings are sequences of one-character strings, so that the regular     *)
(* expressions, trim, split, replace and toLowerCase of the script are     *)
(* computed character by character.  A JavaScript Number that holds a byte *)
(* count is a record [hi, lo, fr] standing for                             *)
(*        hi * 2^20 + lo + fr / Scale      (0 <= lo < 2^20, 0 <= fr < Scale)*)
(* which is exact for every decimal literal with at most FracWidth         *)
(* fractional digits and every product of it with a power of 1024.  The    *)
(* script holds the double nearest to that value; multiplying a double by  *)
(* 1024 is exact, so the two differ by the rounding of the literal only,   *)
(* which can show in toFixed only where the decimal value lies exactly     *)
(* half way between two results.                                           *)
(*                                                                         *)
(* Spec is the page: one controller, one load.  SpecReload adds a caller   *)
(* that invokes loadAvailableFiles again on the same controller.  SpecSize *)
(* calls parseSize and formatSize directly on a token.                     *)
(***************************************************************************)
EXTENDS Integers, Sequences, FiniteSets, TLC

(* ---------------------------------------------------------------------- *)
(* Bounds                                                                  *)
(* ---------------------------------------------------------------------- *)

\* longest size token handed directly to parseSize / formatSize
MaxTokLen == 5

\* most lines in the configuration document of a first load
MaxLines == 4

\* most lines in the configuration document of a later load
MaxReloadLines == 2

\* most calls of loadAvailableFiles on one controller object
MaxLoads == 2

(* ---------------------------------------------------------------------- *)
(* Characters and strings                                                  *)
(* ---------------------------------------------------------------------- *)

DigitChars == <<"0", "1", "2", "3", "4", "5", "6", "7", "8", "9">>

Digit == {DigitChars[i] : i \in 1..10}

DigitVal(c) == IF c \in Digit THEN (CHOOSE i \in 1..10 : DigitChars[i] = c) - 1 ELSE 0

UpperChars == <<"A", "B", "C", "D", "E", "F", "G", "H", "I", "J", "K", "L", "M",
                "N", "O", "P", "Q", "R", "S", "T", "U", "V", "W", "X", "Y", "Z">>

LowerChars == <<"a", "b", "c", "d", "e", "f", "g", "h", "i", "j", "k", "l", "m",
                "n", "o", "p", "q", "r", "s", "t", "u", "v", "w", "x", "y", "z">>

Upper == {UpperChars[i] : i \in 1..26}

Quote == {"\"", "'"}

WhiteSpace == {" ", "\t", "\r", "\n"}

\* String.prototype.startsWith
startsWith(s, p) == Len(s) >= Len(p) /\ SubSeq(s, 1, Len(p)) = p

RECURSIVE trimStart(_)
trimStart(s) ==
  IF s # <<>> /\ Head(s) \in WhiteSpace THEN trimStart(Tail(s)) ELSE s

RECURSIVE trimEnd(_)
trimEnd(s) ==
  IF s # <<>> /\ s[Len(s)] \in WhiteSpace THEN trimEnd(SubSeq(s, 1, Len(s) - 1)) ELSE s

\* String.prototype.trim
trim(s) == trimEnd(trimStart(s))

lowerChar(c) ==
  IF c \in Upper THEN LowerChars[CHOOSE i \in 1..26 : UpperChars[i] = c] ELSE c

\* toLowerCase left out: the value is kept as written
keepCase(s) == s

\* String.prototype.toLowerCase
toLowerCase(s) == [i \in 1..Len(s) |-> lowerChar(s[i])]

\* String.prototype.split("\n"): the pieces between the line feeds
RECURSIVE splitFrom(_, _)
splitFrom(s, cur) ==
  IF s = <<>> THEN <<cur>>
  ELSE IF Head(s) = "\n" THEN <<cur>> \o splitFrom(Tail(s), <<>>)
  ELSE splitFrom(Tail(s), Append(cur, Head(s)))

split(s) == splitFrom(s, <<>>)

\* String.prototype.replace(pat, "") with a string pattern: the first
\* occurrence of pat is removed
RECURSIVE replaceFirst(_, _)
replaceFirst(s, pat) ==
  IF Len(s) < Len(pat) THEN s
  ELSE IF startsWith(s, pat) THEN SubSeq(s, Len(pat) + 1, Len(s))
  ELSE <<Head(s)>> \o replaceFirst(Tail(s), pat)

\* decimal digits of a natural number, as Number.prototype.toFixed writes them
RECURSIVE digitsOf(_)
digitsOf(n) ==
  IF n < 10 THEN <<DigitChars[n + 1]>>
  ELSE Append(digitsOf(n \div 10), DigitChars[(n % 10) + 1])

(* ---------------------------------------------------------------------- *)
(* Numbers                                                                 *)
(* ---------------------------------------------------------------------- *)

\* fractional decimal digits the number representation keeps exactly
FracWidth == MaxTokLen - 3

RECURSIVE pow10(_)
pow10(n) == IF n = 0 THEN 1 ELSE 10 * pow10(n - 1)

RECURSIVE pow2(_)
pow2(n) == IF n = 0 THEN 1 ELSE 2 * pow2(n - 1)

Scale == pow10(FracWidth)

Limb == 1024 * 1024

Zero == [hi |-> 0, lo |-> 0, fr |-> 0]

\* the number n * c for a small natural c
mulSmall(n, c) ==
  [hi |-> n.hi * c + (n.lo * c + (n.fr * c) \div Scale) \div Limb,
   lo |-> (n.lo * c + (n.fr * c) \div Scale) % Limb,
   fr |-> (n.fr * c) % Scale]

\* the number n + 2^k
addPow2(n, k) ==
  IF k >= 20 THEN [n EXCEPT !.hi = n.hi + pow2(k - 20)]
  ELSE [hi |-> n.hi + (n.lo + pow2(k)) \div Limb,
        lo |-> (n.lo + pow2(k)) % Limb,
        fr |-> n.fr]

\* floor(n / 2^k)
floorDivPow2(n, k) ==
  IF k >= 20 THEN n.hi \div pow2(k - 20)
  ELSE n.hi * pow2(20 - k) + n.lo \div pow2(k)

\* the sign of a - b
signOfDifference(a, b) ==
  IF a.hi # b.hi THEN (IF a.hi < b.hi THEN -1 ELSE 1)
  ELSE IF a.lo # b.lo THEN (IF a.lo < b.lo THEN -1 ELSE 1)
  ELSE IF a.fr # b.fr THEN (IF a.fr < b.fr THEN -1 ELSE 1)
  ELSE 0

\* a >= b
geq(a, b) == signOfDifference(a, b) >= 0

RECURSIVE digitsValue(_)
digitsValue(ds) ==
  IF ds = <<>> THEN 0 ELSE digitsValue(SubSeq(ds, 1, Len(ds) - 1)) * 10 + DigitVal(ds[Len(ds)])

\* index of the decimal point in a matched number, 0 when it has none
pointAt(value) ==
  IF \E i \in 1..Len(value) : value[i] = "." THEN CHOOSE i \in 1..Len(value) : value[i] = "." ELSE 0

\* parseFloat of a string matching \d+(?:\.\d+)?
parseFloat(value) ==
  IF pointAt(value) = 0
  THEN [hi |-> digitsValue(value) \div Limb, lo |-> digitsValue(value) % Limb, fr |-> 0]
  ELSE [hi |-> digitsValue(SubSeq(value, 1, pointAt(value) - 1)) \div Limb,
        lo |-> digitsValue(SubSeq(value, 1, pointAt(value) - 1)) % Limb,
        fr |-> digitsValue(SubSeq(value, pointAt(value) + 1, Len(value)))
                 * pow10(FracWidth - (Len(value) - pointAt(value)))]

\* the integer nearest to c * n / 2^k, the larger one of two: the digits that
\* Number.prototype.toFixed(f) writes for n / 2^k, with c = 10^f
roundedQuotient(n, c, k) == floorDivPow2(addPow2(mulSmall(n, 2 * c), k), k + 1)

\* Number.prototype.toFixed(0) of n / 2^k
toFixed0(n, k) == digitsOf(roundedQuotient(n, 1, k))

\* Number.prototype.toFixed(1) of n / 2^k
toFixed1(n, k) ==
  digitsOf(roundedQuotient(n, 10, k) \div 10) \o <<".">>
    \o digitsOf(roundedQuotient(n, 10, k) % 10)

(* ---------------------------------------------------------------------- *)
(* parseSize and formatSize                                                *)
(* ---------------------------------------------------------------------- *)

\* the strings \d*(?:\.\d+)? matches in full: no digit is needed before the point
isNumberOrFraction(value) ==
  /\ value # <<>>
  /\ \A i \in 1..Len(value) : value[i] \in Digit \cup {"."}
  /\ Cardinality({i \in 1..Len(value) : value[i] = "."}) <= 1
  /\ value[Len(value)] # "."

\* the strings \d+(?:\.\d+)? matches in full
isNumber(value) ==
  /\ value # <<>>
  /\ \A i \in 1..Len(value) : value[i] \in Digit \cup {"."}
  /\ Cardinality({i \in 1..Len(value) : value[i] = "."}) <= 1
  /\ value[1] # "."
  /\ value[Len(value)] # "."

Units == {<<"k", "b">>, <<"m", "b">>, <<"g", "b">>}

\* sizeStr.match(/^(\d+(?:\.\d+)?)(kb|mb|gb)$/) is not null
matches(sizeStr) ==
  /\ Len(sizeStr) >= 3
  /\ SubSeq(sizeStr, Len(sizeStr) - 1, Len(sizeStr)) \in Units
  /\ isNumber(SubSeq(sizeStr, 1, Len(sizeStr) - 2))

\* the capture groups of the match
matchValue(sizeStr) == SubSeq(sizeStr, 1, Len(sizeStr) - 2)

matchUnit(sizeStr) == SubSeq(sizeStr, Len(sizeStr) - 1, Len(sizeStr))

\* decimal units in place of binary ones
times1000(n) == mulSmall(n, 1000)

times1024(n) == mulSmall(n, 1024)

parseSize(sizeStr) ==
  IF ~matches(sizeStr) THEN Zero
  ELSE IF matchUnit(sizeStr) = <<"k", "b">> THEN times1024(parseFloat(matchValue(sizeStr)))
  ELSE IF matchUnit(sizeStr) = <<"m", "b">>
    THEN times1024(times1024(parseFloat(matchValue(sizeStr))))
  ELSE IF matchUnit(sizeStr) = <<"g", "b">>
    THEN times1024(times1024(times1024(parseFloat(matchValue(sizeStr)))))
  ELSE Zero

\* the number 1024^j, j in 1..3
pow1024(j) == IF j >= 2 THEN [hi |-> pow2(10 * j - 20), lo |-> 0, fr |-> 0]
              ELSE [hi |-> 0, lo |-> 1024, fr |-> 0]

\* formatSize without .replace(".0", "")
formatSizeKeepingZero(sizeStr) ==
  IF geq(parseSize(sizeStr), pow1024(3))
  THEN toFixed1(parseSize(sizeStr), 30) \o <<" ", "G", "B">>
  ELSE IF geq(parseSize(sizeStr), pow1024(2))
  THEN toFixed0(parseSize(sizeStr), 20) \o <<" ", "M", "B">>
  ELSE toFixed0(parseSize(sizeStr), 10) \o <<" ", "K", "B">>

formatSize(sizeStr) ==
  IF geq(parseSize(sizeStr), pow1024(3))
  THEN replaceFirst(toFixed1(parseSize(sizeStr), 30), <<".", "0">>) \o <<" ", "G", "B">>
  ELSE IF geq(parseSize(sizeStr), pow1024(2))
  THEN toFixed0(parseSize(sizeStr), 20) \o <<" ", "M", "B">>
  ELSE toFixed0(parseSize(sizeStr), 10) \o <<" ", "K", "B">>

(* ---------------------------------------------------------------------- *)
(* parseYamlFiles                                                          *)
(* ---------------------------------------------------------------------- *)

FilesMarker == <<"f", "i", "l", "e", "s", ":">>

\* trimmed.replace(/^- ["']?|["']?$/g, ""): the first alternative matches at
\* index 0 and takes the marker and at most one quote, the second matches at
\* the end of the string and takes at most one quote
afterMarker(trimmed) ==
  IF Len(trimmed) >= 3 /\ trimmed[3] \in Quote
  THEN SubSeq(trimmed, 4, Len(trimmed))
  ELSE SubSeq(trimmed, 3, Len(trimmed))

beforeEnd(s) ==
  IF s # <<>> /\ s[Len(s)] \in Quote THEN SubSeq(s, 1, Len(s) - 1) ELSE s

replaceMarkerAndQuotes(trimmed) == beforeEnd(afterMarker(trimmed))

\* the loop without the break: a line that ends the section is skipped
RECURSIVE scanLinesWithoutBreak(_, _, _, _)
scanLinesWithoutBreak(lines, i, inFilesSection, files) ==
  IF i > Len(lines) THEN files
  ELSE IF trim(lines[i]) = FilesMarker THEN scanLinesWithoutBreak(lines, i + 1, TRUE, files)
  ELSE IF inFilesSection /\ startsWith(trim(lines[i]), <<"-", " ">>)
    THEN scanLinesWithoutBreak(lines, i + 1, inFilesSection,
                   Append(files, toLowerCase(replaceMarkerAndQuotes(trim(lines[i])))))
  ELSE scanLinesWithoutBreak(lines, i + 1, inFilesSection, files)

\* the for loop of parseYamlFiles from line i on; files is this.availableFiles
RECURSIVE scanLines(_, _, _, _)
scanLines(lines, i, inFilesSection, files) ==
  IF i > Len(lines) THEN files
  ELSE IF trim(lines[i]) = FilesMarker THEN scanLines(lines, i + 1, TRUE, files)
  ELSE IF inFilesSection /\ startsWith(trim(lines[i]), <<"-", " ">>)
    THEN scanLines(lines, i + 1, inFilesSection,
                   Append(files, toLowerCase(replaceMarkerAndQuotes(trim(lines[i])))))
  ELSE IF inFilesSection /\ ~startsWith(trim(lines[i]), <<"-">>) /\ trim(lines[i]) # <<>>
    THEN files
  ELSE scanLines(lines, i + 1, inFilesSection, files)

\* the comparator (a, b) => this.parseSize(a) - this.parseSize(b), by its sign
compareFn(a, b) == signOfDifference(parseSize(a), parseSize(b))

\* x put in front of the elements that compare equal to it: an unstable sort
RECURSIVE insertBeforeEqual(_, _)
insertBeforeEqual(sorted, e) ==
  IF sorted = <<>> THEN <<e>>
  ELSE IF compareFn(Head(sorted), e) >= 0 THEN <<e>> \o sorted
  ELSE <<Head(sorted)>> \o insertBeforeEqual(Tail(sorted), e)

\* e put into a sorted array behind every element that does not compare
\* greater than it
RECURSIVE insertSorted(_, _)
insertSorted(sorted, e) ==
  IF sorted = <<>> THEN <<e>>
  ELSE IF compareFn(Head(sorted), e) > 0 THEN <<e>> \o sorted
  ELSE <<Head(sorted)>> \o insertSorted(Tail(sorted), e)

\* Array.prototype.sort(compareFn): the stable sort of the array
RECURSIVE sort(_)
sort(files) ==
  IF files = <<>> THEN <<>>
  ELSE insertSorted(sort(SubSeq(files, 1, Len(files) - 1)), files[Len(files)])

\* parseYamlFiles that validates: tokens parseSize does not match are dropped
parseYamlFilesValidOnly(files, text) ==
  sort(SelectSeq(scanLines(split(text), 1, FALSE, files), matches))

\* this.availableFiles after parseYamlFiles(yamlText) on a controller that
\* holds files
parseYamlFiles(files, text) == sort(scanLines(split(text), 1, FALSE, files))

(* ---------------------------------------------------------------------- *)
(* displayFiles and showError                                              *)
(* ---------------------------------------------------------------------- *)

\* `${window.location.origin}${window.location.pathname}`
LocationBase == <<"/">>

fileCard(size) == [formattedSize |-> formatSize(size), shortUrl |-> LocationBase \o size]

\* displayFiles without the test for an empty catalog
displayedHtmlWithoutEmptyCase(files) ==
  [kind |-> "cards", cards |-> [i \in 1..Len(files) |-> fileCard(files[i])]]

\* filesListEl.innerHTML as displayFiles leaves it
displayedHtml(files) ==
  IF Len(files) = 0 THEN [kind |-> "noFiles", cards |-> <<>>]
  ELSE [kind |-> "cards", cards |-> [i \in 1..Len(files) |-> fileCard(files[i])]]

\* filesListEl.innerHTML as showError leaves it
errorHtml == [kind |-> "error", cards |-> <<>>]

(* ---------------------------------------------------------------------- *)
(* Inputs                                                                  *)
(* ---------------------------------------------------------------------- *)

\* lines of a configuration document
DocLines ==
  { <<>>,
    FilesMarker,
    <<"o", "t", "h", "e", "r", ":">>,
    <<" ", " ", "k", ":", " ", "v">>,
    <<"-", "-", "-">>,
    <<" ", " ", "-", " ", "1", " ", "M", "B">>,
    <<" ", " ", "-", " ", "\"", "1", "G", "B", "\"">>,
    <<"-", " ", "'", "1", "5", "3", "6", "k", "b", "'">>,
    <<" ", " ", "-", " ", "\"", "\"", "x", "\"", "\"">> }

RECURSIVE join(_)
join(lines) ==
  IF lines = <<>> THEN <<>>
  ELSE IF Len(lines) = 1 THEN lines[1]
  ELSE lines[1] \o <<"\n">> \o join(Tail(lines))

\* the configuration documents of at most n lines
DocsUpTo(n) == {join(ls) : ls \in UNION {[1..m -> DocLines] : m \in 0..n}}

\* the configuration documents a server may hold at the first load
Docs == DocsUpTo(MaxLines)

\* and at a later load
ReloadDocs == DocsUpTo(MaxReloadLines)

\* what a response carries that is not the configuration document: the body
\* of a 404 page, the bytes of a binary file decoded as text
OtherBodies ==
  { <<"N", "o", "t", " ", "F", "o", "u", "n", "d">>,
    <<"<", "p", ">", "4", "0", "4", "<", "/", "p", ">", "\n">>,
    <<"\r", "\n", "0", "0">> }

\* what fetch resolves with: the document, the 404 page of a missing
\* resource, or content that is not text
ResponseKinds == {"document", "missing", "nonText"}

Bodies(kind, n) ==
  IF kind # "document" THEN OtherBodies ELSE IF n = 1 THEN Docs ELSE ReloadDocs

TokenChars == {"0", "1", ".", "k", "m", "g", "b"}

\* tokens named by the documentation of the size grammar
NamedTokens ==
  { <<"1", "0", "2", "4", "m", "b">>,
    <<"5", "1", "2", "m", "b">>,
    <<"5", "1", "2", "k", "b">>,
    <<"2", ".", "5", "g", "b">>,
    <<"1", ".", "5", "g", "b">>,
    <<"1", ".", "5", "m", "b">>,
    <<"2", ".", "5", "m", "b">>,
    <<"0", ".", "5", "k", "b">>,
    <<"5", "5", "5", "5", "k", "b">>,
    <<"b", "a", "n", "a", "n", "a">>,
    <<"5", "x", "b">>,
    <<"-", "1", "m", "b">>,
    <<"1", " ", "m", "b">>,
    <<"1", "m", "b", " ">>,
    <<"1", "G", "B">>,
    <<"1", "m", "i", "b">>,
    <<"1", "0", "2", "3", ".", "9", "m", "b">> }

Tokens == NamedTokens \cup UNION {[1..n -> TokenChars] : n \in 0..MaxTokLen}

(* ---------------------------------------------------------------------- *)
(* State                                                                   *)
(* ---------------------------------------------------------------------- *)

VARIABLES
  pc,              \* where loadAvailableFiles stands: "fetch", "text", "done"
  response,        \* what fetch resolved with, "none" before, "rejected" if it threw
  caught,          \* whether the catch block ran
  yamlText,        \* the text the response was read as
  availableFiles,  \* this.availableFiles
  loadingDisplay,  \* loadingEl.style.display
  filesListHtml,   \* filesListEl.innerHTML
  loads,           \* calls of loadAvailableFiles on this controller so far
  sizeStr,         \* argument of a direct call of parseSize / formatSize
  returned         \* what that call returned

vars == <<pc, response, caught, yamlText, availableFiles, loadingDisplay,
          filesListHtml, loads, sizeStr, returned>>

pageVars == <<pc, response, caught, yamlText, availableFiles, loadingDisplay,
              filesListHtml, loads>>

NoCall == [op |-> "none"]

\* new TurboSpeedFiles(): the constructor has run and the fetch is in flight
constructed ==
  /\ pc = "fetch"
  /\ response = "none"
  /\ caught = FALSE
  /\ yamlText = <<>>
  /\ availableFiles = <<>>
  /\ loadingDisplay = "block"
  /\ filesListHtml = [kind |-> "loading", cards |-> <<>>]
  /\ loads = 1

Init ==
  /\ constructed
  /\ sizeStr = <<>>
  /\ returned = NoCall

(* ---------------------------------------------------------------------- *)
(* loadAvailableFiles                                                      *)
(* ---------------------------------------------------------------------- *)

\* await fetch(...) resolves: any HTTP response resolves it, whatever its status
fetchResolves ==
  /\ pc = "fetch"
  /\ \E kind \in ResponseKinds : response' = kind
  /\ pc' = "text"
  /\ UNCHANGED <<caught, yamlText, availableFiles, loadingDisplay, filesListHtml,
                 loads, sizeStr, returned>>

\* await fetch(...) throws (network error): catch, showError
fetchRejects ==
  /\ pc = "fetch"
  /\ response' = "rejected"
  /\ caught' = TRUE
  /\ loadingDisplay' = "none"
  /\ filesListHtml' = errorHtml
  /\ pc' = "done"
  /\ UNCHANGED <<yamlText, availableFiles, loads, sizeStr, returned>>

\* await response.text() resolves: parseYamlFiles, displayFiles
textResolves ==
  /\ pc = "text"
  /\ \E text \in Bodies(response, loads) :
       /\ yamlText' = text
       /\ availableFiles' = parseYamlFiles(availableFiles, text)
       /\ filesListHtml' = displayedHtml(availableFiles')
  /\ loadingDisplay' = "none"
  /\ pc' = "done"
  /\ UNCHANGED <<response, caught, loads, sizeStr, returned>>

\* await response.text() throws (the body cannot be read): catch, showError
textRejects ==
  /\ pc = "text"
  /\ caught' = TRUE
  /\ loadingDisplay' = "none"
  /\ filesListHtml' = errorHtml
  /\ pc' = "done"
  /\ UNCHANGED <<response, yamlText, availableFiles, loads, sizeStr, returned>>

Next == fetchResolves \/ fetchRejects \/ textResolves \/ textRejects

Spec == Init /\ [][Next]_vars

(* ---------------------------------------------------------------------- *)
(* A caller that loads again on the same controller                        *)
(* ---------------------------------------------------------------------- *)

\* loadAvailableFiles() called again once the previous call has finished:
\* the method neither resets this.availableFiles nor shows the loading
\* indicator again
loadAgain ==
  /\ pc = "done"
  /\ loads < MaxLoads
  /\ loads' = loads + 1
  /\ pc' = "fetch"
  /\ response' = "none"
  /\ caught' = FALSE
  /\ yamlText' = <<>>
  /\ UNCHANGED <<availableFiles, loadingDisplay, filesListHtml, sizeStr, returned>>

NextReload == Next \/ loadAgain

SpecReload == Init /\ [][NextReload]_vars

(* ---------------------------------------------------------------------- *)
(* Direct calls of parseSize and formatSize                                *)
(* ---------------------------------------------------------------------- *)

InitSize ==
  /\ constructed
  /\ sizeStr \in Tokens
  /\ returned = NoCall

callParseSize ==
  /\ returned' = [op |-> "parseSize", ret |-> parseSize(sizeStr)]
  /\ UNCHANGED <<pageVars, sizeStr>>

callFormatSize ==
  /\ returned' = [op |-> "formatSize", ret |-> formatSize(sizeStr)]
  /\ UNCHANGED <<pageVars, sizeStr>>

NextSize == callParseSize \/ callFormatSize

SpecSize == InitSize /\ [][NextSize]_vars

(* ---------------------------------------------------------------------- *)
(* Vocabulary of the properties                                            *)
(* ---------------------------------------------------------------------- *)

\* the load has ended by rendering the text of a response
rendered == pc = "done" /\ ~caught

\* the retrieval of the configuration document failed
retrievalFailed == caught \/ response \in {"rejected", "missing", "nonText"}

occurrences(seq, e) == Cardinality({i \in 1..Len(seq) : seq[i] = e})

isPermutation(a, b) ==
  LET left == a
      right == b
  IN /\ Len(left) = Len(right)
     /\ \A i \in 1..Len(left) : occurrences(left, left[i]) = occurrences(right, left[i])

\* the entries of seq whose byte size is that of e, in the order of seq
RECURSIVE ofSize(_, _)
ofSize(seq, e) ==
  IF seq = <<>> THEN <<>>
  ELSE IF parseSize(Head(seq)) = parseSize(e) THEN <<Head(seq)>> \o ofSize(Tail(seq), e)
  ELSE ofSize(Tail(seq), e)

isMarkerLine(line) == trim(line) = FilesMarker

isItemLine(line) == startsWith(trim(line), <<"-", " ">>)

\* lines that end the section: non-blank, not starting with a hyphen, and
\* not the marker itself
endsSection(line) ==
  /\ trim(line) # <<>>
  /\ ~startsWith(trim(line), <<"-">>)
  /\ ~isMarkerLine(line)

\* lines that would end the section if every non-blank line other than a
\* list item did
endsSectionAtAnyNonItem(line) == trim(line) # <<>> /\ ~isItemLine(line)

\* index of the first marker line, Len(lines) + 1 when there is none
firstMarker(lines) ==
  IF \E i \in 1..Len(lines) : isMarkerLine(lines[i])
  THEN CHOOSE i \in 1..Len(lines) :
         isMarkerLine(lines[i]) /\ \A j \in 1..(i - 1) : ~isMarkerLine(lines[j])
  ELSE Len(lines) + 1

\* index of the first line behind the marker that ends the section
sectionEnd(lines, Ends(_)) ==
  IF \E i \in (firstMarker(lines) + 1)..Len(lines) : Ends(lines[i])
  THEN CHOOSE i \in (firstMarker(lines) + 1)..Len(lines) :
         Ends(lines[i]) /\ \A j \in (firstMarker(lines) + 1)..(i - 1) : ~Ends(lines[j])
  ELSE Len(lines) + 1

\* the value of a list item: marker off, one quote off each end where there
\* is one, lower case
itemValue(line) ==
  toLowerCase(SubSeq(trim(line),
                     IF Len(trim(line)) >= 3 /\ trim(line)[3] \in Quote THEN 4 ELSE 3,
                     IF /\ trim(line)[Len(trim(line))] \in Quote
                        /\ Len(trim(line)) > (IF trim(line)[3] \in Quote THEN 3 ELSE 2)
                     THEN Len(trim(line)) - 1 ELSE Len(trim(line))))

\* the values of the list items between lines from and to, in document order
RECURSIVE itemsBetween(_, _, _)
itemsBetween(lines, from, to) ==
  IF from >= to - 1 THEN <<>>
  ELSE IF isItemLine(lines[from + 1])
    THEN <<itemValue(lines[from + 1])>> \o itemsBetween(lines, from + 1, to)
  ELSE itemsBetween(lines, from + 1, to)

\* the entries of the section of a document, in document order
sectionEntries(text) ==
  LET lines == split(text) IN
  itemsBetween(lines, firstMarker(lines), sectionEnd(lines, endsSection))

sectionEntriesToAnyNonItem(text) ==
  LET lines == split(text) IN
  itemsBetween(lines, firstMarker(lines), sectionEnd(lines, endsSectionAtAnyNonItem))

(* ---------------------------------------------------------------------- *)
(* C1                                                                      *)
(* ---------------------------------------------------------------------- *)

\* C1: the catalog parseYamlFiles leaves is ascending by parseSize, and the
\* entries of one byte size (unparseable ones, of size 0, included) stand in
\* the order in which the document lists them.
TheoremC1 ==
  rendered =>
    LET listed == sectionEntries(yamlText) IN
    /\ \A i \in 1..Len(availableFiles) : \A j \in i..Len(availableFiles) :
         geq(parseSize(availableFiles[j]), parseSize(availableFiles[i]))
    /\ \A i \in 1..Len(availableFiles) :
         ofSize(availableFiles, availableFiles[i]) = ofSize(listed, availableFiles[i])

\* the sort has moved an entry and has kept two different tokens of one size
WitnessC1 ==
  /\ rendered
  /\ availableFiles # sectionEntries(yamlText)
  /\ \E i \in 1..Len(availableFiles) : \E j \in 1..Len(availableFiles) :
       /\ i < j
       /\ availableFiles[i] # availableFiles[j]
       /\ parseSize(availableFiles[i]) = parseSize(availableFiles[j])
       /\ ~matches(availableFiles[i])

(* ---------------------------------------------------------------------- *)
(* C2                                                                      *)
(* ---------------------------------------------------------------------- *)

\* C2: when the retrieval of the configuration document fails (network
\* error, missing resource, content that is not text) the load ends with the
\* error message, never with "no files available" or with cards.
CounterC2 ==
  (pc = "done" /\ retrievalFailed) => filesListHtml.kind = "error"

(* ---------------------------------------------------------------------- *)
(* C3                                                                      *)
(* ---------------------------------------------------------------------- *)

isDigits(s) == s # <<>> /\ \A i \in 1..Len(s) : s[i] \in Digit

\* token = i digits, then f > 0 digits behind a point or nothing, then a unit
hasShape(token, i, f) ==
  /\ Len(token) = i + (IF f = 0 THEN 0 ELSE f + 1) + 2
  /\ isDigits(SubSeq(token, 1, i))
  /\ f > 0 => token[i + 1] = "." /\ isDigits(SubSeq(token, i + 2, i + 1 + f))
  /\ SubSeq(token, Len(token) - 1, Len(token)) \in Units

inGrammar(token) ==
  \E i \in 1..Len(token) : \E f \in 0..Len(token) : hasShape(token, i, f)

\* the digits of the token without the point, read as one integer
allDigits(token, i, f) ==
  digitsValue(SubSeq(token, 1, i) \o
              (IF f = 0 THEN <<>> ELSE SubSeq(token, i + 2, i + 1 + f)))

\* the integer d times the factor of the unit
scaled(d, unit) ==
  IF unit = <<"k", "b">> THEN [hi |-> (d * 1024) \div Limb, lo |-> (d * 1024) % Limb, fr |-> 0]
  ELSE IF unit = <<"m", "b">> THEN [hi |-> d, lo |-> 0, fr |-> 0]
  ELSE [hi |-> d * 1024, lo |-> 0, fr |-> 0]

OnePointFiveGb == <<"1", ".", "5", "g", "b">>

\* C3: for a token digits[.digits] followed by kb, mb or gb, parseSize
\* returns the decimal value times 1024, 1024^2 or 1024^3: 10^f times the
\* result is the digits read as one integer times that factor, and "1.5gb"
\* gives 1610612736.
TheoremC3 ==
  returned.op = "parseSize" =>
    /\ \A i \in 1..Len(sizeStr) : \A f \in 0..Len(sizeStr) :
         hasShape(sizeStr, i, f) =>
           mulSmall(returned.ret, pow10(f))
             = scaled(allDigits(sizeStr, i, f), matchUnit(sizeStr))
    /\ sizeStr = OnePointFiveGb =>
         returned.ret.fr = 0 /\ returned.ret.hi * Limb + returned.ret.lo = 1610612736

WitnessC3 ==
  /\ returned.op = "parseSize"
  /\ sizeStr = OnePointFiveGb
  /\ returned.ret = [hi |-> 1536, lo |-> 0, fr |-> 0]

(* ---------------------------------------------------------------------- *)
(* C4                                                                      *)
(* ---------------------------------------------------------------------- *)

ZeroKB == <<"0", " ", "K", "B">>

\* C4: for a token outside the grammar digits[.digits](kb|mb|gb), parseSize
\* returns 0 and formatSize returns "0 KB".
TheoremC4 ==
  ~inGrammar(sizeStr) =>
    /\ returned.op = "parseSize" => returned.ret = Zero
    /\ returned.op = "formatSize" => returned.ret = ZeroKB

WitnessC4 ==
  /\ sizeStr = <<"-", "1", "m", "b">>
  /\ returned.op = "formatSize"
  /\ returned.ret = ZeroKB

(* ---------------------------------------------------------------------- *)
(* C5                                                                      *)
(* ---------------------------------------------------------------------- *)

\* the number m * 2^k
timesPow2(m, k) ==
  IF k >= 20 THEN [hi |-> m * pow2(k - 20), lo |-> 0, fr |-> 0]
  ELSE [hi |-> m \div pow2(20 - k), lo |-> (m % pow2(20 - k)) * pow2(k), fr |-> 0]

\* n is an integer nearest to c * bytes / 2^k:
\* (2n - 1) * 2^k <= 2c * bytes <= (2n + 1) * 2^k
nearest(n, bytes, c, k) ==
  /\ n > 0 => geq(mulSmall(bytes, 2 * c), timesPow2(2 * n - 1, k))
  /\ geq(timesPow2(2 * n + 1, k), mulSmall(bytes, 2 * c))

\* the text in front of the unit suffix
numberPart(text) == SubSeq(text, 1, Len(text) - 3)

suffix(text) == SubSeq(text, Len(text) - 2, Len(text))

\* text is digits, or digits and one decimal that is not 0, for n tenths
writesTenths(text, n) ==
  IF n % 10 = 0 THEN isDigits(text) /\ digitsValue(text) * 10 = n
  ELSE /\ Len(text) >= 3
       /\ text[Len(text) - 1] = "."
       /\ isDigits(SubSeq(text, 1, Len(text) - 2))
       /\ text[Len(text)] \in Digit
       /\ digitsValue(SubSeq(text, 1, Len(text) - 2)) * 10 + DigitVal(text[Len(text)]) = n

\* the tenths a text of digits with at most one decimal stands for
tenthsOf(text) ==
  IF Len(text) >= 3 /\ text[Len(text) - 1] = "."
  THEN digitsValue(SubSeq(text, 1, Len(text) - 2)) * 10 + DigitVal(text[Len(text)])
  ELSE digitsValue(text) * 10

formatExamples ==
  /\ sizeStr = <<"1", "0", "2", "4", "m", "b">> => returned.ret = <<"1", " ", "G", "B">>
  /\ sizeStr = <<"5", "1", "2", "m", "b">> => returned.ret = <<"5", "1", "2", " ", "M", "B">>
  /\ sizeStr = <<"5", "1", "2", "k", "b">> => returned.ret = <<"5", "1", "2", " ", "K", "B">>
  /\ sizeStr = <<"2", ".", "5", "g", "b">> => returned.ret = <<"2", ".", "5", " ", "G", "B">>

\* C5: formatSize picks the unit by 1024-based thresholds on the byte count:
\* from 1024^3 the GiB value to one decimal, a decimal 0 left out, and " GB";
\* else from 1024^2 the nearest whole MiB and " MB"; else the nearest whole
\* KiB and " KB".
TheoremC5 ==
  returned.op = "formatSize" =>
    /\ Len(returned.ret) >= 4
    /\ IF geq(parseSize(sizeStr), scaled(1, <<"g", "b">>))
       THEN /\ suffix(returned.ret) = <<" ", "G", "B">>
            /\ \A i \in 1..Len(numberPart(returned.ret)) :
                 numberPart(returned.ret)[i] \in Digit \cup {"."}
            /\ writesTenths(numberPart(returned.ret), tenthsOf(numberPart(returned.ret)))
            /\ nearest(tenthsOf(numberPart(returned.ret)), parseSize(sizeStr), 10, 30)
       ELSE IF geq(parseSize(sizeStr), scaled(1, <<"m", "b">>))
       THEN /\ suffix(returned.ret) = <<" ", "M", "B">>
            /\ isDigits(numberPart(returned.ret))
            /\ nearest(digitsValue(numberPart(returned.ret)), parseSize(sizeStr), 1, 20)
       ELSE /\ suffix(returned.ret) = <<" ", "K", "B">>
            /\ isDigits(numberPart(returned.ret))
            /\ nearest(digitsValue(numberPart(returned.ret)), parseSize(sizeStr), 1, 10)
    /\ formatExamples

WitnessC5 ==
  /\ returned.op = "formatSize"
  /\ sizeStr = <<"1", "0", "2", "4", "m", "b">>
  /\ returned.ret = <<"1", " ", "G", "B">>

(* ---------------------------------------------------------------------- *)
(* C6                                                                      *)
(* ---------------------------------------------------------------------- *)

\* C6 as stated: the catalog holds the list items between the first "files:"
\* line and the first later line that is non-blank and does not start with
\* "- ", and nothing else.
CounterC6 ==
  rendered => isPermutation(availableFiles, sectionEntriesToAnyNonItem(yamlText))

\* C6: the catalog holds the list items between the first "files:" line and
\* the first later line that is non-blank, does not start with "-" and is
\* not itself "files:", and nothing else: no line before the marker and no
\* line from that one on contributes, whatever its indentation.
TheoremC6 ==
  rendered => isPermutation(availableFiles, sectionEntries(yamlText))

\* a document with an item before the marker, an item in the section, and an
\* item behind an indented line that ends it
WitnessC6 ==
  /\ rendered
  /\ Len(split(yamlText)) = 4
  /\ isItemLine(split(yamlText)[1])
  /\ isMarkerLine(split(yamlText)[2])
  /\ split(yamlText)[3] = <<" ", " ", "k", ":", " ", "v">>
  /\ isItemLine(split(yamlText)[4])
  /\ availableFiles = <<>>

(* ---------------------------------------------------------------------- *)
(* C7                                                                      *)
(* ---------------------------------------------------------------------- *)

hasMarker(text) == \E i \in 1..Len(split(text)) : isMarkerLine(split(text)[i])

viewOfLoad ==
  /\ pc # "done" => loadingDisplay = "block" /\ filesListHtml.kind = "loading"
  /\ pc = "done" =>
       /\ loadingDisplay = "none"
       /\ filesListHtml.kind \in {"cards", "noFiles", "error"}
  /\ rendered =>
       /\ filesListHtml.kind = "cards" <=> Len(availableFiles) >= 1
       /\ filesListHtml.kind = "noFiles" <=> Len(availableFiles) = 0
       /\ ~hasMarker(yamlText) => filesListHtml.kind = "noFiles"
  /\ filesListHtml.kind = "error" => caught

leftLoadingOnce ==
  filesListHtml.kind # "loading" =>
    filesListHtml' = filesListHtml /\ loadingDisplay' = loadingDisplay

\* C7: the view is loading until the retrieval completes and then is in
\* exactly one of populated, empty, errored, with the loading indicator
\* hidden, and never changes again: populated iff the catalog has an entry,
\* empty iff it has none, errored only when the retrieval threw.
TheoremC7 == []viewOfLoad /\ [][leftLoadingOnce]_vars

\* a document with list items but no marker has been rendered as empty
WitnessC7 ==
  /\ rendered
  /\ response = "document"
  /\ ~hasMarker(yamlText)
  /\ \E i \in 1..Len(split(yamlText)) : isItemLine(split(yamlText)[i])
  /\ filesListHtml.kind = "noFiles"
  /\ loadingDisplay = "none"

(* ---------------------------------------------------------------------- *)
(* C8                                                                      *)
(* ---------------------------------------------------------------------- *)

OneGb == <<"1", "g", "b">>

\* C8 as stated: no catalog entry begins or ends with a quote character or
\* holds an upper-case letter.
CounterC8 ==
  rendered =>
    \A i \in 1..Len(availableFiles) :
      /\ availableFiles[i] # <<>> =>
           /\ availableFiles[i][1] \notin Quote
           /\ availableFiles[i][Len(availableFiles[i])] \notin Quote
      /\ \A j \in 1..Len(availableFiles[i]) : availableFiles[i][j] \notin Upper

\* the item lines of the section of a document, in document order
RECURSIVE itemLinesBetween(_, _, _)
itemLinesBetween(lines, from, to) ==
  IF from >= to - 1 THEN <<>>
  ELSE IF isItemLine(lines[from + 1])
    THEN <<trim(lines[from + 1])>> \o itemLinesBetween(lines, from + 1, to)
  ELSE itemLinesBetween(lines, from + 1, to)

sectionItemLines(text) ==
  LET lines == split(text) IN
  itemLinesBetween(lines, firstMarker(lines), sectionEnd(lines, endsSection))

\* entry is line without the marker, without one quote at the front if q1,
\* without one quote at the end if q2, in lower case
isValueOf(entry, line, q1, q2) ==
  /\ Len(entry) = Len(line) - 2 - q1 - q2
  /\ \A k \in 1..Len(entry) :
       /\ entry[k] \notin Upper
       /\ entry[k] = line[k + 2 + q1] \/ (line[k + 2 + q1] \in Upper /\ entry[k] # line[k + 2 + q1])
  /\ q1 = 1 <=> (Len(line) >= 3 /\ line[3] \in Quote)
  /\ q2 = 1 <=> (Len(line) >= 4 + q1 /\ line[Len(line)] \in Quote)

\* C8: the entry of a list item is the rest of the trimmed line behind "- "
\* with at most one quote character removed from its front and at most one
\* from its end, in lower case: no entry holds an upper-case letter, an entry
\* begins or ends with a quote only where the line carried a second one, and
\* an item written "1GB" has the byte count of "1gb".
TheoremC8 ==
  rendered =>
    LET items == sectionItemLines(yamlText) IN
    /\ \A i \in 1..Len(availableFiles) :
         \E n \in 1..Len(items) : \E q1 \in 0..1 : \E q2 \in 0..1 :
           isValueOf(availableFiles[i], items[n], q1, q2)
    /\ \A n \in 1..Len(items) :
         /\ \E i \in 1..Len(availableFiles) : \E q1 \in 0..1 : \E q2 \in 0..1 :
              isValueOf(availableFiles[i], items[n], q1, q2)
         /\ items[n] = <<"-", " ", "\"", "1", "G", "B", "\"">> =>
              \E i \in 1..Len(availableFiles) :
                /\ availableFiles[i] = OneGb
                /\ parseSize(availableFiles[i]) = scaled(1, <<"g", "b">>)

\* a quoted upper-case item and a doubly quoted one have been read
WitnessC8 ==
  /\ rendered
  /\ \E i \in 1..Len(availableFiles) : availableFiles[i] = OneGb
  /\ \E i \in 1..Len(availableFiles) : availableFiles[i] = <<"\"", "x", "\"">>
  /\ \E n \in 1..Len(sectionItemLines(yamlText)) :
       sectionItemLines(yamlText)[n] = <<"-", " ", "\"", "1", "G", "B", "\"">>

(* ---------------------------------------------------------------------- *)
(* C9                                                                      *)
(* ---------------------------------------------------------------------- *)

\* C9: the catalog is a permutation of the entries collected from the
\* section, malformed ones included, and displayFiles renders one card per
\* catalog entry, in catalog order.
TheoremC9 ==
  rendered =>
    LET listed == sectionEntries(yamlText) IN
    /\ Len(availableFiles) = Len(listed)
    /\ \A i \in 1..Len(availableFiles) :
         occurrences(availableFiles, availableFiles[i]) = occurrences(listed, availableFiles[i])
    /\ Len(filesListHtml.cards) = Len(availableFiles)
    /\ \A i \in 1..Len(availableFiles) :
         /\ filesListHtml.cards[i].shortUrl = LocationBase \o availableFiles[i]
         /\ ~inGrammar(availableFiles[i]) => filesListHtml.cards[i].formattedSize = ZeroKB

\* two malformed entries and a well-formed one are in the catalog and on the page
WitnessC9 ==
  /\ rendered
  /\ Len(availableFiles) = 3
  /\ ~inGrammar(availableFiles[1])
  /\ ~inGrammar(availableFiles[2])
  /\ inGrammar(availableFiles[3])
  /\ Len(filesListHtml.cards) = 3

(* ---------------------------------------------------------------------- *)
(* C10                                                                     *)
(* ---------------------------------------------------------------------- *)

catalogOfText ==
  rendered => isPermutation(sectionEntries(yamlText), availableFiles)

catalogKept ==
  filesListHtml.kind # "loading" => availableFiles' = availableFiles

\* C10: every call of parseYamlFiles leaves a catalog that holds the entries
\* of the text it was given and no others, whatever the controller held
\* before, and no step changes the catalog once the view has left loading.
CounterC10 == []catalogOfText /\ [][catalogKept]_vars

====
